---- MODULE Spec2Model ----
(***************************************************************************)
(* Model of exercise.py: a one-shot script that fetches the Jira tickets   *)
(* whose description carries an attribution line, appends each of them to  *)
(* Jira_Cleanup.csv and writes the description back with the attribution   *)
(* removed.                                                                *)
(*                                                                         *)
(* Text is a sequence of one-character strings, so that the regular        *)
(* expression, the CSV writer and the JSON encoder are computed character  *)
(* by character.                                                           *)
(***************************************************************************)
EXTENDS Integers, Sequences, FiniteSets, TLC

VARIABLES
    pc,           \* position of the run
    srv,          \* the remote server the run talks to
    offset,       \* query_jira: offset
    issues,       \* query_jira: issues
    results,      \* main: results
    idx,          \* main: number of tickets whose loop body has started
    description,  \* main: description (of the current ticket)
    cleaned,      \* main: the second argument of update_description
    report,       \* contents of Jira_Cleanup.csv
    report0,      \* contents of Jira_Cleanup.csv when the run started
    requests,     \* every HTTP request issued so far, in order
    delivered,    \* number of PUT requests the server has answered
    lastStatus,   \* HTTP status of the last PUT response, 0 before any
    ret,          \* last value returned by update_description, "none" before
    failedIn      \* where an exception was raised, "none" if nowhere

vars == <<pc, srv, offset, issues, results, idx, description, cleaned, report,
          report0, requests, delivered, lastStatus, ret, failedIn>>

----------------------------------------------------------------------------
(* Text *)

NL == "\n"
CR == "\r"

\* "Contributed by: ", the literal part of the pattern of line 175
Marker ==
    <<"C", "o", "n", "t", "r", "i", "b", "u", "t", "e", "d", " ", "b", "y", ":", " ">>

\* "Contributed by: A\n", a whole attribution line with its newline
Line == Marker \o <<"A", NL>>

RECURSIVE Flatten(_)
Flatten(ss) == IF ss = <<>> THEN <<>> ELSE Head(ss) \o Flatten(Tail(ss))

\* dict.get(k, default)
Get(dict, k, default) == IF k \in DOMAIN dict THEN dict[k] ELSE default

----------------------------------------------------------------------------
(* re.sub(r"\nContributed by: .*\n", "", description) *)

\* s[i..] starts with lit
StartsAt(s, i, lit) ==
    /\ i + Len(lit) - 1 <= Len(s)
    /\ SubSeq(s, i, i + Len(lit) - 1) = lit

\* the first index >= i of s holding a newline, 0 when there is none
RECURSIVE NextNewline(_, _)
NextNewline(s, i) ==
    IF i > Len(s) THEN 0
    ELSE IF s[i] = NL THEN i
    ELSE NextNewline(s, i + 1)

\* The index of the last character of the match of the pattern that starts at
\* index i of s, 0 when the pattern does not match there.  "." does not match a
\* newline, so ".*" runs to the end of the line and "\n" must follow.
MatchEnd(s, i) ==
    IF i <= Len(s) /\ s[i] = NL /\ StartsAt(s, i + 1, Marker)
    THEN NextNewline(s, i + 1 + Len(Marker))
    ELSE 0

\* re.sub with count=1: only the leftmost match is replaced
RECURSIVE SubFirstFrom(_, _)
SubFirstFrom(s, pos) ==
    IF pos > Len(s) THEN <<>>
    ELSE IF MatchEnd(s, pos) # 0 THEN SubSeq(s, MatchEnd(s, pos) + 1, Len(s))
    ELSE <<s[pos]>> \o SubFirstFrom(s, pos + 1)

\* re.sub scanning s from pos: every leftmost non-overlapping match is
\* replaced by the empty string, the scan resuming after the match
RECURSIVE SubFrom(_, _)
SubFrom(s, pos) ==
    IF pos > Len(s) THEN <<>>
    ELSE IF MatchEnd(s, pos) # 0 THEN SubFrom(s, MatchEnd(s, pos) + 1)
    ELSE <<s[pos]>> \o SubFrom(s, pos + 1)

CleanFirstOnly(s) == SubFirstFrom(s, 1)

Clean(s) == SubFrom(s, 1)

----------------------------------------------------------------------------
(* Text conversions *)

Digits == <<"0", "1", "2", "3", "4", "5", "6", "7", "8", "9">>

\* str(n) for an int n >= 0
RECURSIVE Str(_)
Str(n) == IF n < 10 THEN <<Digits[n + 1]>> ELSE Str(n \div 10) \o <<Digits[(n % 10) + 1]>>

\* csv.writer, dialect excel: a field holding the delimiter, the quote
\* character or a character of the line terminator is written in quotes
NeedsQuote(f) == \E i \in 1..Len(f) : f[i] \in {",", "\"", CR, NL}

\* doublequote=True: a quote character inside a field is written twice
RECURSIVE DoubleQuotes(_)
DoubleQuotes(f) ==
    IF f = <<>> THEN <<>>
    ELSE (IF Head(f) = "\"" THEN <<"\"", "\"">> ELSE <<Head(f)>>)
             \o DoubleQuotes(Tail(f))

\* a field written as it is, never quoted
CsvFieldUnquoted(f) == f

CsvField(f) ==
    IF NeedsQuote(f) THEN <<"\"">> \o DoubleQuotes(f) \o <<"\"">> ELSE f

\* csv_out.writerow(data) for a row of three fields: the fields joined by the
\* delimiter, then the line terminator "\r\n"
WriteRow(data) ==
    CsvField(data[1]) \o <<",">> \o CsvField(data[2]) \o <<",">>
        \o CsvField(data[3]) \o <<CR, NL>>

\* the escapes of json.dumps for the characters of the model's texts
RECURSIVE JsonEscape(_)
JsonEscape(s) ==
    IF s = <<>> THEN <<>>
    ELSE (CASE Head(s) = "\"" -> <<"\\", "\"">>
            [] Head(s) = "\\" -> <<"\\", "\\">>
            [] Head(s) = NL -> <<"\\", "n">>
            [] Head(s) = CR -> <<"\\", "r">>
            [] OTHER -> <<Head(s)>>)
             \o JsonEscape(Tail(s))

PayloadHead == <<"{", "\"", "f", "i", "e", "l", "d", "s", "\"", ":", " ", "{", "\"", "d", "e", "s", "c", "r", "i", "p", "t", "i", "o", "n", "\"", ":", " ", "\"">>
PayloadTail == <<"\"", "}", "}">>

\* json.dumps({"fields": {"description": f"{description}"}})
Payload(text) == PayloadHead \o JsonEscape(text) \o PayloadTail

----------------------------------------------------------------------------
(* Tickets *)

PageSize == 1000

EmptyDict == <<>>

\* the key of the n-th ticket of project LOL
KeyOf(n) == <<"L", "O", "L", "-">> \o Str(n)

\* the ticket of the specification's example
Ticket1 ==
    [key |-> KeyOf(1), id |-> 42,
     fields |-> [summary |-> <<"F", "i", "x", " ", "c", "r", "a", "s", "h">>,
                 description |-> <<"H", NL>> \o Marker \o <<"A", NL, "F">>]]

\* no summary; two attribution lines, one right after the other
Ticket2 ==
    [key |-> KeyOf(2), id |-> 7,
     fields |-> [description |-> <<"H", NL, NL>> \o Line \o Line \o <<"F">>]]

\* no fields at all
Ticket3 == [key |-> KeyOf(3), id |-> 10001]

\* a summary the CSV writer has to quote; no attribution line
Ticket4 ==
    [key |-> KeyOf(4), id |-> 8,
     fields |-> [summary |-> <<"a", ",", "\"", "b", "\"", NL, "c">>,
                 description |-> <<"a", "\"", "\\", NL, "b">>]]

Pool == {Ticket1, Ticket2, Ticket3, Ticket4}

\* the i-th ticket of a large result set
Ticket(i) == [key |-> KeyOf(i), id |-> i]

----------------------------------------------------------------------------
(* The server *)

MaxPageIssues == 1
MaxTotal == 2000

Min(a, b) == IF a < b THEN a ELSE b
Max(a, b) == IF a > b THEN a ELSE b

PageLists == UNION {[1..n -> Pool] : n \in 0..MaxPageIssues}

Totals == {0, PageSize}

Failure == [ok |-> FALSE]
Ok(json) == [ok |-> TRUE, json |-> json]

\* the tickets at positions startAt+1 .. startAt+1000 of a result set of T tickets
PageOf(T, startAt) ==
    [i \in 1..Max(0, Min(PageSize, T - startAt)) |-> Ticket(startAt + i)]

\* What the server may answer to the search request at startAt.
\*   any:     any body, or a transport / parse failure
\*   paged:   well-behaved: the page at startAt and the true total
\*   const:   any issues, always the total T
\*   bounded: a total that is at most T, or none
\*   nototal: a body without the total field
GetResponses(server, startAt) ==
    CASE server.mode = "any" ->
           {Failure}
             \cup {Ok([issues |-> l, total |-> t]) : l \in PageLists, t \in Totals}
             \cup {Ok([issues |-> l]) : l \in PageLists}
             \cup {Ok([total |-> t]) : t \in Totals}
      [] server.mode = "paged" ->
           {Ok([issues |-> PageOf(server.T, startAt), total |-> server.T])}
      [] server.mode = "const" ->
           {Ok([issues |-> l, total |-> server.T]) : l \in {<<>>, <<Ticket1>>}}
      [] server.mode = "bounded" ->
           {Ok([issues |-> <<>>, total |-> t]) : t \in {0, server.T \div 2, server.T}}
             \cup {Ok([issues |-> <<>>])}
      [] server.mode = "nototal" ->
           {Ok([issues |-> l]) : l \in {<<>>, <<Ticket1>>}}

PutStatuses == {204, 400, 500}

\* What the server may answer to an update request: a status, or a transport
\* failure
PutResponses == {Failure} \cup {[ok |-> TRUE, status |-> st] : st \in PutStatuses}

----------------------------------------------------------------------------
(* query_jira *)

\* issues = page, the pages read before forgotten
AccumulateLastOnly(sofar, page) == page

\* issues += response.json().get("issues", [])
Accumulate(sofar, page) == sofar \o page

\* offset += 1000
NextOffset(o) == o + PageSize

\* the loop goes on while the reported total exceeds the new offset
MorePagesStrict(total, o) == ~(total <= o)

\* the loop goes on unless the reported total is less than the new offset
MorePages(total, o) == ~(total < o)

GetRequest(startAt) == [method |-> "GET", startAt |-> startAt]

\* One iteration of the loop of query_jira in which a failed request is
\* caught and the issues read so far are returned.
GetPageCatchesFailure ==
    /\ pc = "query"
    /\ \E resp \in GetResponses(srv, offset) :
         /\ requests' = Append(requests, GetRequest(offset))
         /\ IF resp.ok
            THEN LET page == Get(resp.json, "issues", <<>>)
                     total == Get(resp.json, "total", 0)
                 IN  /\ issues' = Accumulate(issues, page)
                     /\ offset' = NextOffset(offset)
                     /\ IF MorePages(total, offset')
                        THEN pc' = "query" /\ UNCHANGED results
                        ELSE pc' = "for" /\ results' = issues'
                     /\ UNCHANGED failedIn
            ELSE /\ pc' = "for"
                 /\ results' = issues
                 /\ failedIn' = "fetch"
                 /\ UNCHANGED <<issues, offset>>
    /\ UNCHANGED <<srv, idx, description, cleaned, report, report0, delivered,
                   lastStatus, ret>>

\* One iteration of the loop of query_jira; the last one returns issues to
\* main, which binds it to results.  A failure propagates out of main.
GetPage ==
    /\ pc = "query"
    /\ \E resp \in GetResponses(srv, offset) :
         /\ requests' = Append(requests, GetRequest(offset))
         /\ IF resp.ok
            THEN LET page == Get(resp.json, "issues", <<>>)
                     total == Get(resp.json, "total", 0)
                 IN  /\ issues' = Accumulate(issues, page)
                     /\ offset' = NextOffset(offset)
                     /\ IF MorePages(total, offset')
                        THEN pc' = "query" /\ UNCHANGED results
                        ELSE pc' = "for" /\ results' = issues'
                     /\ UNCHANGED failedIn
            ELSE /\ pc' = "aborted"
                 /\ failedIn' = "fetch"
                 /\ UNCHANGED <<issues, offset, results>>
    /\ UNCHANGED <<srv, idx, description, cleaned, report, report0, delivered,
                   lastStatus, ret>>

----------------------------------------------------------------------------
(* add_to_report *)

\* data: the key, the id and the summary of the issue.  csv.writer writes
\* str(id) for the int and nothing for an absent value.
RowData(issue) ==
    <<Get(issue, "key", <<>>),
      IF "id" \in DOMAIN issue THEN Str(issue.id) ELSE <<>>,
      Get(Get(issue, "fields", EmptyDict), "summary", <<>>)>>

\* open("Jira_Cleanup.csv", "a"): the row is written after what the file holds
AddToReport(file, issue) == file \o WriteRow(RowData(issue))

----------------------------------------------------------------------------
(* update_description *)

\* the value returned, had it been derived from the status of the response
UpdateReturnFromStatus(status) == IF status < 400 THEN "True" ELSE "False"

\* return True
UpdateReturn(status) == "True"

PutRequest(issue_key, text) ==
    [method |-> "PUT", key |-> issue_key, data |-> Payload(text)]

----------------------------------------------------------------------------
(* main *)

\* result.get("fields", {}).get("description", "")
DescriptionOf(result) ==
    Get(Get(result, "fields", EmptyDict), "description", <<>>)

\* The row is written and the loop goes on to the next ticket, the update
\* left out of the loop body.
ReportStepWithoutUpdate ==
    /\ pc = "for"
    /\ idx < Len(results)
    /\ idx' = idx + 1
    /\ report' = AddToReport(report, results[idx + 1])
    /\ pc' = "for"
    /\ UNCHANGED <<srv, offset, issues, results, description, cleaned, report0,
                   requests, delivered, lastStatus, ret, failedIn>>

\* for result in results: add_to_report(result)
ReportStep ==
    /\ pc = "for"
    /\ idx < Len(results)
    /\ idx' = idx + 1
    /\ report' = AddToReport(report, results[idx + 1])
    /\ pc' = "update"
    /\ UNCHANGED <<srv, offset, issues, results, description, cleaned, report0,
                   requests, delivered, lastStatus, ret, failedIn>>

\* The rest of the loop body, which stops the loop when the update did not
\* succeed.
UpdateStepStopsOnError ==
    /\ pc = "update"
    /\ description' = DescriptionOf(results[idx])
    /\ cleaned' = Clean(description')
    /\ requests' = Append(requests, PutRequest(results[idx].key, cleaned'))
    /\ \E resp \in PutResponses :
         IF resp.ok
         THEN /\ delivered' = delivered + 1
              /\ lastStatus' = resp.status
              /\ ret' = UpdateReturnFromStatus(resp.status)
              /\ pc' = IF ret' = "True" THEN "for" ELSE "done"
              /\ UNCHANGED failedIn
         ELSE /\ pc' = "aborted"
              /\ failedIn' = "update"
              /\ UNCHANGED <<delivered, lastStatus, ret>>
    /\ UNCHANGED <<srv, offset, issues, results, idx, report, report0>>

\* The rest of the loop body: the description is read, cleaned and sent; the
\* value update_description returns is dropped.  A failure of the request
\* propagates out of main.
UpdateStep ==
    /\ pc = "update"
    /\ description' = DescriptionOf(results[idx])
    /\ cleaned' = Clean(description')
    /\ requests' = Append(requests, PutRequest(results[idx].key, cleaned'))
    /\ \E resp \in PutResponses :
         IF resp.ok
         THEN /\ delivered' = delivered + 1
              /\ lastStatus' = resp.status
              /\ ret' = UpdateReturn(resp.status)
              /\ pc' = "for"
              /\ UNCHANGED failedIn
         ELSE /\ pc' = "aborted"
              /\ failedIn' = "update"
              /\ UNCHANGED <<delivered, lastStatus, ret>>
    /\ UNCHANGED <<srv, offset, issues, results, idx, report, report0>>

\* the loop has gone through results: main returns
Finish ==
    /\ pc = "for"
    /\ idx = Len(results)
    /\ pc' = "done"
    /\ UNCHANGED <<srv, offset, issues, results, idx, description, cleaned,
                   report, report0, requests, delivered, lastStatus, ret, failedIn>>

\* what Jira_Cleanup.csv may hold before the run
InitialReports == {<<>>, <<"O", "L", "D", "-", "9", ",", "9", ",", "o", "l", "d", CR, NL>>}

Start ==
    /\ pc = "query"
    /\ offset = 0
    /\ issues = <<>>
    /\ results = <<>>
    /\ idx = 0
    /\ description = <<>>
    /\ cleaned = <<>>
    /\ requests = <<>>
    /\ delivered = 0
    /\ lastStatus = 0
    /\ ret = "none"
    /\ failedIn = "none"

Init ==
    /\ Start
    /\ srv = [mode |-> "any", T |-> 0]
    /\ report0 \in InitialReports
    /\ report = report0

Next == GetPage \/ ReportStep \/ UpdateStep \/ Finish

Spec == Init /\ [][Next]_vars

\* query_jira on its own, no request failing
InitFetch ==
    /\ Start
    /\ srv \in [mode : {"paged", "const", "bounded", "nototal"}, T : 0..MaxTotal]
    /\ report0 = <<>>
    /\ report = report0

SpecFetch == InitFetch /\ [][GetPage]_vars

----------------------------------------------------------------------------
(* The cleaning of a description on its own *)

MaxPieces == 6

Half1 == SubSeq(Marker, 1, 5)
Half2 == SubSeq(Marker, 6, Len(Marker))

Pieces == {<<NL>>, Line, <<"X">>, Half1, Half2}

Descriptions ==
    UNION {{Flatten(ps) : ps \in [1..n -> Pieces]} : n \in 0..MaxPieces}

InitClean ==
    /\ pc = "clean"
    /\ description \in Descriptions
    /\ cleaned = <<>>
    /\ srv = <<>>
    /\ offset = 0
    /\ issues = <<>>
    /\ results = <<>>
    /\ idx = 0
    /\ report = <<>>
    /\ report0 = <<>>
    /\ requests = <<>>
    /\ delivered = 0
    /\ lastStatus = 0
    /\ ret = "none"
    /\ failedIn = "none"

CleanStep ==
    /\ pc = "clean"
    /\ cleaned' = Clean(description)
    /\ pc' = "cleaned"
    /\ UNCHANGED <<srv, offset, issues, results, idx, description, report,
                   report0, requests, delivered, lastStatus, ret, failedIn>>

SpecClean == InitClean /\ [][CleanStep]_vars

----------------------------------------------------------------------------
(* Properties of the cleaning *)

\* i is the first character of a line of s
LineStart(s, i) == i = 1 \/ (i > 1 /\ s[i - 1] = NL)

\* the indices at which a line of the form "Contributed by: ..." starts
AttributionLines(s) ==
    {i \in 1..Len(s) : LineStart(s, i) /\ StartsAt(s, i, Marker)}

\* s without the characters at indices from..to
Without(s, from, to) == SubSeq(s, 1, from - 1) \o SubSeq(s, to + 1, Len(s))

\* the indices of s at which the pattern of line 175 matches
Candidates(s) == {i \in 1..Len(s) : MatchEnd(s, i) # 0}

\* A match is removed unless it starts on the newline that ends a removed
\* match.
RECURSIVE Removed(_, _)
Removed(s, i) ==
    /\ MatchEnd(s, i) # 0
    /\ ~ \E j \in 1..(i - 1) : MatchEnd(s, j) = i /\ Removed(s, j)

RemovedMatches(s) == {i \in Candidates(s) : Removed(s, i)}

RECURSIVE KeepFrom(_, _, _)
KeepFrom(s, k, covered) ==
    IF k > Len(s) THEN <<>>
    ELSE IF k \in covered THEN KeepFrom(s, k + 1, covered)
    ELSE <<s[k]>> \o KeepFrom(s, k + 1, covered)

\* s without the characters of its removed matches
WithoutRemoved(s) ==
    KeepFrom(s, 1, UNION {i..MatchEnd(s, i) : i \in RemovedMatches(s)})

\* C1: a description with one attribution line, ended by a newline, is cleaned
\* to the original without that line and its newline, every other character
\* kept; a description without an attribution line is passed unchanged.
C1_LineRemovedExactly ==
    pc = "cleaned" =>
        LET lines == AttributionLines(description)
        IN  /\ lines = {} => cleaned = description
            /\ \A i \in lines :
                   (lines = {i} /\ NextNewline(description, i) # 0)
                       => cleaned = Without(description, i,
                                            NextNewline(description, i))

\* C7 as stated: of two or more attribution lines that the pattern matches,
\* only the first is removed and every later one is still present.
C7_OnlyFirstRemoved ==
    (pc = "cleaned" /\ Cardinality(Candidates(description)) >= 2) =>
        LET first == CHOOSE i \in Candidates(description) :
                         \A j \in Candidates(description) : i <= j
        IN  cleaned = Without(description, first, MatchEnd(description, first))

\* C7 as amended: every attribution line that is preceded by a newline and
\* ended by a newline is removed together with both newlines, not only the
\* first one; the only matching line that stays is one that starts on the
\* newline ending a removed line.
C7_EveryMatchRemoved ==
    pc = "cleaned" => cleaned = WithoutRemoved(description)

C7_Witness ==
    /\ pc = "cleaned"
    /\ Cardinality(RemovedMatches(description)) >= 2
    /\ Candidates(description) # RemovedMatches(description)
    /\ cleaned # CleanFirstOnly(description)

\* C9: cleaning an already cleaned description changes nothing,
\* clean(clean(d)) = clean(d).
C9_Idempotent ==
    pc = "cleaned" => Clean(cleaned) = cleaned

----------------------------------------------------------------------------
(* Properties of the run *)

IsGet(r) == r.method = "GET"
IsPut(r) == r.method = "PUT"

\* the update requests issued so far, in order
Puts == SelectSeq(requests, IsPut)

\* the rows the CSV writer writes for the tickets ts, one after the other
RowsOf(ts) == Flatten([k \in 1..Len(ts) |-> WriteRow(RowData(ts[k]))])

IsPrefix(a, b) == Len(a) <= Len(b) /\ SubSeq(b, 1, Len(a)) = a
IsSuffix(a, b) == Len(a) <= Len(b) /\ SubSeq(b, Len(b) - Len(a) + 1, Len(b)) = a

\* A CSV reader (dialect excel) over s from index i: the records read, each a
\* sequence of fields.  inq: inside a quoted field; field, rec: the field and
\* the record being read.
RECURSIVE ReadCsv(_, _, _, _, _)
ReadCsv(s, i, inq, field, rec) ==
    IF i > Len(s)
    THEN IF field = <<>> /\ rec = <<>> THEN <<>> ELSE <<Append(rec, field)>>
    ELSE IF inq
    THEN IF s[i] = "\""
         THEN IF i < Len(s) /\ s[i + 1] = "\""
              THEN ReadCsv(s, i + 2, TRUE, Append(field, "\""), rec)
              ELSE ReadCsv(s, i + 1, FALSE, field, rec)
         ELSE ReadCsv(s, i + 1, TRUE, Append(field, s[i]), rec)
    ELSE IF s[i] = "\"" /\ field = <<>>
    THEN ReadCsv(s, i + 1, TRUE, field, rec)
    ELSE IF s[i] = ","
    THEN ReadCsv(s, i + 1, FALSE, <<>>, Append(rec, field))
    ELSE IF s[i] = CR /\ i < Len(s) /\ s[i + 1] = NL
    THEN <<Append(rec, field)>> \o ReadCsv(s, i + 2, FALSE, <<>>, <<>>)
    ELSE IF s[i] = NL
    THEN <<Append(rec, field)>> \o ReadCsv(s, i + 1, FALSE, <<>>, <<>>)
    ELSE ReadCsv(s, i + 1, FALSE, Append(field, s[i]), rec)

ParseCsv(s) == ReadCsv(s, 1, FALSE, <<>>, <<>>)

\* the inverse of the escapes of a JSON string
RECURSIVE JsonUnescape(_)
JsonUnescape(s) ==
    IF s = <<>> THEN <<>>
    ELSE IF Head(s) = "\\" /\ Len(s) >= 2
    THEN (CASE s[2] = "n" -> <<NL>>
            [] s[2] = "r" -> <<CR>>
            [] OTHER -> <<s[2]>>)
             \o JsonUnescape(SubSeq(s, 3, Len(s)))
    ELSE <<Head(s)>> \o JsonUnescape(Tail(s))

\* the description a request body {"fields": {"description": "..."}} carries
DescriptionIn(data) ==
    JsonUnescape(SubSeq(data, Len(PayloadHead) + 1, Len(data) - Len(PayloadTail)))

IsUpdateBody(data) ==
    /\ IsPrefix(PayloadHead, data)
    /\ IsSuffix(PayloadTail, data)
    /\ Len(data) >= Len(PayloadHead) + Len(PayloadTail)

\* the well-behaved server's result set of T tickets, in server order
ResultSet(T) == [i \in 1..T |-> Ticket(i)]

\* C2: against a well-behaved server the requests are at startAt 0, 1000,
\* 2000, ... in that order, the loop goes on exactly while the total is at
\* least the next offset, and the sequence returned is the whole result set,
\* every ticket once, in server order.
C2_Pagination ==
    srv.mode = "paged" =>
        /\ \A k \in 1..Len(requests) : requests[k] = GetRequest(PageSize * (k - 1))
        /\ offset = PageSize * Len(requests)
        /\ pc = "query" => srv.T >= offset
        /\ pc = "for" =>
             /\ srv.T < offset
             /\ Len(requests) >= 1
             /\ srv.T >= offset - PageSize
             /\ results = ResultSet(srv.T)

C2_Witness ==
    /\ srv.mode = "paged"
    /\ pc = "for"
    /\ srv.T > PageSize
    /\ Len(requests) = 3
    /\ results = ResultSet(srv.T)

\* C3: when main has returned, whatever the status of each update response,
\* the report has gained one row per fetched ticket, in fetch order, and one
\* update request per fetched ticket has been sent, to that ticket's key and
\* carrying that ticket's cleaned description.
C3_CompletedRun ==
    pc = "done" =>
        /\ report = report0 \o RowsOf(results)
        /\ Len(Puts) = Len(results)
        /\ delivered = Len(results)
        /\ \A k \in 1..Len(results) :
             /\ Puts[k].key = results[k].key
             /\ IsUpdateBody(Puts[k].data)
             /\ DescriptionIn(Puts[k].data) = Clean(DescriptionOf(results[k]))

C3_Witness ==
    /\ pc = "done"
    /\ Len(results) >= 2
    /\ lastStatus = 500
    /\ Len(Puts) = Len(results)

\* C4: the report is what it was before the run followed by one CSV record
\* per call of add_to_report, whose three fields are the ticket's key, id and
\* summary, the summary empty when the ticket has none; a record whose fields
\* need no quoting is the line key,id,summary; no header is written.
C4_ReportRows ==
    /\ IsPrefix(report0, report)
    /\ ParseCsv(report)
         = ParseCsv(report0) \o [k \in 1..idx |-> RowData(results[k])]
    /\ \A k \in 1..idx :
         LET data == RowData(results[k])
         IN  /\ Len(data) = 3
             /\ data[1] = results[k].key
             /\ data[2] = Str(results[k].id)
             /\ (results[k] = Ticket1 => data[3] = <<"F", "i", "x", " ", "c", "r", "a", "s", "h">>)
             /\ (results[k] \in {Ticket2, Ticket3} => data[3] = <<>>)
    /\ (idx >= 1 /\ results[idx] = Ticket1) => IsSuffix(<<"L", "O", "L", "-", "1", ",", "4", "2", ",", "F", "i", "x", " ", "c", "r", "a", "s", "h", CR, NL>>, report)
    /\ (idx >= 1 /\ results[idx] = Ticket2) => IsSuffix(<<"L", "O", "L", "-", "2", ",", "7", ",", CR, NL>>, report)
    /\ (idx = 1 /\ report0 = <<>> /\ results[1] = Ticket1) => report = <<"L", "O", "L", "-", "1", ",", "4", "2", ",", "F", "i", "x", " ", "c", "r", "a", "s", "h", CR, NL>>

C4_Witness ==
    /\ idx >= 2
    /\ report0 # <<>>
    /\ results[1] = Ticket1
    /\ results[idx] = Ticket2
    /\ IsSuffix(<<"L", "O", "L", "-", "1", ",", "4", "2", ",", "F", "i", "x", " ", "c", "r", "a", "s", "h", CR, NL, "L", "O", "L", "-", "2", ",", "7", ",", CR, NL>>, report)

\* C5: whenever update_description has returned, the value returned is True,
\* whatever the status of the response.
C5_AlwaysTrue ==
    /\ ret \in {"none", "True"}
    /\ delivered > 0 => ret = "True"

C5_Witness ==
    /\ lastStatus = 500
    /\ delivered > 0
    /\ ret = "True"

\* C6: a failure ends the run at once.  After a failed search request nothing
\* has been appended to the report and no update has been sent, whatever was
\* fetched before; after the failed update of the i-th ticket the report holds
\* the rows of tickets 1..i and the updates of tickets 1..i-1 have been
\* delivered; after either, no step is taken any more.
C6_AbortOnFailure ==
    /\ failedIn = "fetch" =>
         /\ pc = "aborted"
         /\ report = report0
         /\ Puts = <<>>
         /\ idx = 0
    /\ failedIn = "update" =>
         /\ pc = "aborted"
         /\ idx >= 1
         /\ report = report0 \o RowsOf(SubSeq(results, 1, idx))
         /\ delivered = idx - 1
         /\ Len(Puts) = idx
    /\ pc = "aborted" => (failedIn # "none" /\ ~ENABLED Next)

C6_Witness ==
    /\ pc = "aborted"
    /\ failedIn = "fetch"
    /\ Len(issues) >= 1
    /\ Len(requests) >= 2

\* C8: the tickets are processed one at a time, in fetch order, the row before
\* the update: the rows written are those of the first idx tickets, the
\* updates sent are those of the first idx or idx-1 tickets, an update is sent
\* only after its ticket's row, the next row only after the update, and
\* nothing is written or updated before the last search request has returned.
C8_Sequential ==
    /\ idx <= Len(results)
    /\ report = report0 \o RowsOf(SubSeq(results, 1, idx))
    /\ Len(Puts) \in {idx, idx - 1}
    /\ \A k \in 1..Len(Puts) :
         Puts[k] = PutRequest(results[k].key, Clean(DescriptionOf(results[k])))
    /\ pc = "update" => Len(Puts) = idx - 1
    /\ pc \in {"for", "done"} => Len(Puts) = idx
    /\ pc = "query" => (report = report0 /\ Puts = <<>> /\ idx = 0)
    /\ \A i, j \in 1..Len(requests) :
         (i < j /\ IsPut(requests[i])) => IsPut(requests[j])

C8_Witness ==
    /\ pc = "update"
    /\ idx >= 2
    /\ Len(Puts) = idx - 1
    /\ Len(requests) > Len(Puts) + 1

\* C10: with the same total T in every response the loop ends after exactly
\* T \div 1000 + 1 requests, the last one at startAt = 1000 * (T \div 1000);
\* without a total field it ends after one request; with totals that never
\* exceed T it ends after at most T \div 1000 + 1 requests.  Until it ends the
\* next request can be issued.
C10_Termination ==
    LET n == Len(requests)
        most == (srv.T \div PageSize) + 1
    IN  srv.mode # "any" =>
          /\ pc \in {"query", "for"}
          /\ pc = "query" => ENABLED GetPage
          /\ srv.mode \in {"paged", "const"} =>
               /\ pc = "query" => n < most
               /\ pc = "for" =>
                    /\ n = most
                    /\ requests[n] = GetRequest(PageSize * (srv.T \div PageSize))
          /\ srv.mode = "nototal" =>
               /\ pc = "query" => n = 0
               /\ pc = "for" => n = 1
          /\ srv.mode = "bounded" =>
               /\ n <= most
               /\ pc = "query" => n < most

C10_Witness ==
    /\ srv.mode = "const"
    /\ srv.T = 2 * PageSize
    /\ pc = "for"
    /\ Len(requests) = 3
    /\ requests[3] = GetRequest(srv.T)

====
